---- MODULE Spec2Model ----
(***************************************************************************)
(* Model of import_cards.py: the Scryfall bulk-data import.                *)
(*                                                                         *)
(*   download_latest_json  freshness check and download of the bulk file   *)
(*   process_card          per-record transformation                       *)
(*   main                  parse loop, paged upsert, commit, close         *)
(*                                                                         *)
(* JSON values are tagged records, one field name per Python type:         *)
(*   [null |-> TRUE]  None            [str |-> <<chars>>]  str             *)
(*   [int |-> n]      int             [decimal |-> n]      decimal.Decimal *)
(*   [bool |-> b]     bool            [list |-> <<v, ..>>] list            *)
(*   [dict |-> << <<key, v>>, .. >>]  dict, in insertion order             *)
(* Values made by the program: [date |-> <<y, m, d>>], [float |-> n] (the  *)
(* double nearest Decimal n), [Json |-> v] (psycopg2.extras.Json).         *)
(***************************************************************************)
EXTENDS Integers, Sequences, FiniteSets, TLC

\* ---------------------------------------------------------------------
\* Python values
\* ---------------------------------------------------------------------
None == [null |-> TRUE]

IsStr(v) == "str" \in DOMAIN v
IsDecimal(v) == "decimal" \in DOMAIN v
IsDict(v) == "dict" \in DOMAIN v
IsList(v) == "list" \in DOMAIN v

\* bool(v): the truth value Python gives a value in `not x` / `if x`.
Truthy(v) ==
    IF "null" \in DOMAIN v THEN FALSE
    ELSE IF IsStr(v) THEN Len(v.str) > 0
    ELSE IF "int" \in DOMAIN v THEN v.int # 0
    ELSE IF IsDecimal(v) THEN v.decimal # 0
    ELSE IF "bool" \in DOMAIN v THEN v.bool
    ELSE IF IsList(v) THEN Len(v.list) > 0
    ELSE IF IsDict(v) THEN Len(v.dict) > 0
    ELSE TRUE

\* key in d
HasKey(d, key) == \E i \in 1..Len(d.dict) : d.dict[i][1] = key

\* d[key], for a key that is present
GetItem(d, key) ==
    d.dict[CHOOSE i \in 1..Len(d.dict) : d.dict[i][1] = key][2]

\* d.get(key)
Get(d, key) == IF HasKey(d, key) THEN GetItem(d, key) ELSE None

\* d[key] = val : replaces in place, or appends a new key
SetItem(d, key, val) ==
    IF HasKey(d, key)
    THEN [dict |-> [i \in 1..Len(d.dict) |->
                      IF d.dict[i][1] = key THEN <<key, val>> ELSE d.dict[i]]]
    ELSE [dict |-> Append(d.dict, <<key, val>>)]

\* ---------------------------------------------------------------------
\* The column list.  The model keeps six of the source's columns, in the
\* source's order: the key, the three columns process_card treats
\* specially, one Decimal-valued column and one plain scalar column.  The
\* other columns go through the same generic branch as oracle_id.
\* ---------------------------------------------------------------------
columns == <<"oracle_id", "id", "released_at", "image_uris", "cmc", "card_faces">>

NumCols == Len(columns)

ColIdx(col) == CHOOSE i \in 1..NumCols : columns[i] = col

\* ---------------------------------------------------------------------
\* parse_date
\* ---------------------------------------------------------------------
Digits == <<"0", "1", "2", "3", "4", "5", "6", "7", "8", "9">>

IsDigit(c) == \E i \in 1..10 : Digits[i] = c

DigitVal(c) == (CHOOSE i \in 1..10 : Digits[i] = c) - 1

IsLeap(y) == y % 4 = 0 /\ (y % 100 # 0 \/ y % 400 = 0)

DaysInMonth(y, m) ==
    IF m = 2 THEN (IF IsLeap(y) THEN 29 ELSE 28)
    ELSE IF m \in {4, 6, 9, 11} THEN 30 ELSE 31

\* datetime.fromisoformat(s).date() for strings of at most ten characters:
\* the calendar form YYYY-MM-DD is the only one accepted; anything else
\* raises ValueError, and a non-string argument raises TypeError.
fromisoformat_date(v) ==
    IF ~IsStr(v) THEN [raise |-> "TypeError"]
    ELSE LET s == v.str IN
      IF /\ Len(s) = 10
         /\ s[5] = "-" /\ s[8] = "-"
         /\ \A i \in {1, 2, 3, 4, 6, 7, 9, 10} : IsDigit(s[i])
      THEN LET y == 1000 * DigitVal(s[1]) + 100 * DigitVal(s[2])
                    + 10 * DigitVal(s[3]) + DigitVal(s[4])
               m == 10 * DigitVal(s[6]) + DigitVal(s[7])
               d == 10 * DigitVal(s[9]) + DigitVal(s[10])
           IN IF y >= 1 /\ m \in 1..12 /\ d >= 1 /\ d <= DaysInMonth(y, m)
              THEN [date |-> <<y, m, d>>]
              ELSE [raise |-> "ValueError"]
      ELSE [raise |-> "ValueError"]

parse_date(date_str) ==
    IF ~Truthy(date_str) THEN None
    ELSE LET r == fromisoformat_date(date_str) IN
         IF "raise" \in DOMAIN r /\ r.raise = "ValueError" THEN None ELSE r

\* ---------------------------------------------------------------------
\* convert_decimals
\* ---------------------------------------------------------------------
RECURSIVE convert_decimals(_)
convert_decimals(obj) ==
    IF IsDecimal(obj) THEN [float |-> obj.decimal]
    ELSE IF IsDict(obj)
      THEN [dict |-> [i \in 1..Len(obj.dict) |->
                        <<obj.dict[i][1], convert_decimals(obj.dict[i][2])>>]]
    ELSE IF IsList(obj)
      THEN [list |-> [i \in 1..Len(obj.list) |-> convert_decimals(obj.list[i])]]
    ELSE obj

\* ---------------------------------------------------------------------
\* process_card
\* ---------------------------------------------------------------------
\* The loop of lines 161-163: the image_uris value of every face that has
\* the key, in face order.
RECURSIVE aggregate(_)
aggregate(faces) ==
    IF faces = <<>> THEN <<>>
    ELSE (IF HasKey(Head(faces), "image_uris")
          THEN <<GetItem(Head(faces), "image_uris")>> ELSE <<>>)
         \o aggregate(Tail(faces))

\* Variant: line 159 testing the key's presence instead of its truth value.
with_image_uris_KeyOnly(card) ==
    IF HasKey(card, "card_faces") /\ ~HasKey(card, "image_uris")
    THEN LET aggregated == aggregate(GetItem(card, "card_faces").list) IN
         IF aggregated # <<>>
         THEN SetItem(card, "image_uris", [list |-> aggregated])
         ELSE card
    ELSE card

\* Lines 159-165: the card after the aggregation step.
with_image_uris(card) ==
    IF HasKey(card, "card_faces") /\ ~Truthy(Get(card, "image_uris"))
    THEN LET aggregated == aggregate(GetItem(card, "card_faces").list) IN
         IF aggregated # <<>>
         THEN SetItem(card, "image_uris", [list |-> aggregated])
         ELSE card
    ELSE card

\* Lines 169-178: the value stored for one column.
column_value(card, col) ==
    LET val == Get(card, col) IN
    IF col = "released_at" THEN parse_date(val)
    ELSE IF IsDecimal(val) THEN [float |-> val.decimal]
    ELSE IF IsDict(val) \/ IsList(val) THEN [Json |-> convert_decimals(val)]
    ELSE val

\* process_card followed by line 234: the row tuple in column order, or
\* the exception that leaves process_card.
process_card(card) ==
    LET c == with_image_uris(card)
        row == [i \in 1..NumCols |-> column_value(c, columns[i])]
    IN IF \E i \in 1..NumCols : "raise" \in DOMAIN row[i]
       THEN [raise |-> row[CHOOSE i \in 1..NumCols : "raise" \in DOMAIN row[i]].raise]
       ELSE [row |-> row]

Raised(r) == "raise" \in DOMAIN r

\* ---------------------------------------------------------------------
\* Time.  An aware datetime is a count of microseconds, a float timestamp
\* a count of units of 2^-22 s (the spacing of doubles between 2^30 s and
\* 2^31 s, i.e. 2004..2038), a file time a record [sec, nsec].  All three
\* are relative to one whole second inside that range, which every
\* conversion below leaves alone.
\* ---------------------------------------------------------------------
MICRO == 1000000

GRID == 4194304

\* off + n / d rounded to the nearest integer, ties to the even one.
RoundHalfEven(off, n, d) ==
    LET q == off + n \div d
        r == n % d
    IN IF 2 * r < d THEN q
       ELSE IF 2 * r > d THEN q + 1
       ELSE IF q % 2 = 0 THEN q ELSE q + 1

\* datetime.timestamp(): microseconds / 10^6 as the nearest double.
\* us * 2^22 / 10^6 = us * 65536 / 15625, split to stay within 32 bits.
timestamp(dt) ==
    LET s == dt \div MICRO
        us == dt % MICRO
    IN RoundHalfEven(s * GRID + (us \div 15625) * 65536,
                     (us % 15625) * 65536, 15625)

\* Variant: the fraction of the second dropped.
utime_Seconds(t) == [sec |-> t \div GRID, nsec |-> 0]

\* os.utime(path, (t, t)) with float t: the fraction times 10^9, rounded
\* down, on a file system that keeps nanoseconds.
\* f * 10^9 / 2^22 = f * 1953125 / 8192, and 1953125 = 238 * 8192 + 3429.
utime(t) ==
    LET f == t % GRID
        a == f \div 8192
        b == f % 8192
    IN [sec |-> t \div GRID,
        nsec |-> a * 1953125 + b * 238 + (b * 3429) \div 8192]

\* os.path.getmtime(): st_mtime = sec + 1e-9 * nsec as a double.
\* nsec * 2^22 / 10^9 = nsec * 8192 / 1953125.
getmtime(ft) ==
    LET c == ft.nsec \div 1953125
        d == ft.nsec % 1953125
        g == (d * 64) \div 1953125
        h == (d * 64) % 1953125
    IN RoundHalfEven(ft.sec * GRID + c * 8192 + g * 128, h * 128, 1953125)

\* datetime.fromtimestamp(t, tz=timezone.utc): the fraction times 10^6,
\* rounded half to even.  f * 10^6 / 2^22 = f * 15625 / 65536.
fromtimestamp(t) ==
    LET f == t % GRID
    IN RoundHalfEven((t \div GRID) * MICRO + (f \div 65536) * 15625,
                     (f % 65536) * 15625, 65536)

\* Line 205.
local_mtime(ft) == fromtimestamp(getmtime(ft))

\* ---------------------------------------------------------------------
\* The environment: what the server publishes and what the client clock
\* reads.
\* ---------------------------------------------------------------------
MaxRuns == 3

S(chars) == [str |-> chars]

uris == [dict |-> << <<"normal", S(<<"u">>)>> >>]

faceWith == [dict |-> << <<"name", S(<<"f">>)>>, <<"image_uris", uris>> >>]

faceWithout == [dict |-> << <<"name", S(<<"g">>)>> >>]

cA == [dict |-> << <<"oracle_id", S(<<"o">>)>>, <<"id", S(<<"1">>)>>,
                   <<"released_at",
                     S(<<"2", "0", "2", "0", "-", "0", "2", "-", "2", "9">>)>>,
                   <<"image_uris", uris>>, <<"cmc", [decimal |-> 25]>> >>]

cA2 == [dict |-> << <<"oracle_id", S(<<"p">>)>>, <<"id", S(<<"1">>)>>,
                    <<"cmc", [decimal |-> 25]>> >>]

cB == [dict |-> << <<"oracle_id", S(<<"o">>)>>, <<"id", S(<<"2">>)>>,
                   <<"released_at",
                     S(<<"n", "o", "t", "-", "a", "-", "d", "a", "t", "e">>)>>,
                   <<"card_faces", [list |-> <<faceWith, faceWithout>>]>> >>]

cNum == [dict |-> << <<"id", S(<<"3">>)>>,
                     <<"released_at", [int |-> 20200102]>> >>]

cNoId == [dict |-> << <<"oracle_id", S(<<"o">>)>> >>]

\* The card array of each published version of the bulk file.
Payload == << <<cA, cB>>, <<cA2, cB, cA>>, <<cA, cA2>>, <<cNoId>>, <<cB, cNum>> >>

\* The updated_at of each version, in microseconds.
UpdatedAt == <<3331000, 5123457, 6000000, 7999999, 8500000>>

NumVersions == Len(Payload)

\* Readings of the client clock, as the file system records them.  The
\* client clock is not synchronised with the server's; it does not run
\* backwards.
ClockPool == <<[sec |-> 1, nsec |-> 0],
               [sec |-> 5, nsec |-> 123456600],
               [sec |-> 9, nsec |-> 500000000]>>

\* A local not yet assigned, a file never stamped, no earlier commit.
Unset == [unset |-> TRUE]

\* File time a is not earlier than file time b.
NotBefore(a, b) == a.sec > b.sec \/ (a.sec = b.sec /\ a.nsec >= b.nsec)

NoFile == [exists |-> FALSE, mtime |-> [sec |-> 0, nsec |-> 0],
           cards |-> <<>>, complete |-> FALSE]

\* A file left by an earlier successful download of version v.
StampedFile(v) ==
    [exists |-> TRUE, mtime |-> utime(timestamp(UpdatedAt[v])),
     cards |-> Payload[v], complete |-> TRUE]

\* ---------------------------------------------------------------------
\* State
\* ---------------------------------------------------------------------
VARIABLES
    pc,                 \* position of the running process, or how it ended
    run,                \* number of processes started so far
    version,            \* the version the server currently publishes
    now,                \* client clock
    file,               \* scryfall-oracle_cards.json
    stamp,              \* [at |-> updated_at line 219 stamped the file with], or Unset
    connOpen,           \* conn (line 36) is open
    cursorOpen,         \* cursor (line 43) is open
    fileOpen,           \* a handle f on the file is open
    server_updated_at,  \* local of download_latest_json
    content,            \* r.content
    pos,                \* cards read from the file by the loop of line 232
    card,               \* loop variable of line 232
    processed,          \* result of process_card(card)
    data,               \* rows buffered by main
    sent,               \* rows of data sent by execute_values
    touched,            \* keys inserted or updated by the current statement
    txn,                \* cards as seen inside the open transaction
    cards,              \* committed contents of table cards
    before,             \* cards when the process started
    rowsChanged,        \* rows inserted or updated by this process
    lastData,           \* [rows |-> data of the last earlier committed process], or Unset
    error               \* the step at which an exception left the process, or ""

vars == <<pc, run, version, now, file, stamp, connOpen, cursorOpen, fileOpen,
          server_updated_at, content, pos, card, processed, data, sent,
          touched, txn, cards, before, rowsChanged, lastData, error>>

env == <<version, now>>
dbvars == <<txn, cards, sent, touched, rowsChanged, lastData, error>>
parsevars == <<pos, card, processed, data>>
handles == <<connOpen, cursorOpen, fileOpen>>

RowOf(c) == process_card(c).row

\* Contents the table may have before the first modelled run.
InitialTables == {<<>>, <<RowOf(cA2)>>, <<RowOf(cB), RowOf(cA)>>}

Init ==
    /\ pc = "idle"
    /\ run = 0
    /\ version \in 1..NumVersions
    /\ now = ClockPool[1]
    /\ file \in {NoFile, StampedFile(1)}
    /\ stamp = IF file.exists THEN [at |-> UpdatedAt[1]] ELSE Unset
    /\ connOpen = FALSE /\ cursorOpen = FALSE /\ fileOpen = FALSE
    /\ server_updated_at = Unset
    /\ content = <<>>
    /\ pos = 0 /\ card = None /\ processed = None /\ data = <<>>
    /\ sent = 0 /\ touched = {}
    /\ cards \in InitialTables
    /\ txn = cards
    /\ before = cards
    /\ rowsChanged = 0
    /\ lastData = Unset
    /\ error = ""

Ended == pc \in {"idle", "done", "failed"}

\* The server publishes the next version of the bulk file.
Publish ==
    /\ Ended /\ version < NumVersions
    /\ version' = version + 1
    /\ UNCHANGED <<pc, run, now, file, stamp, handles, server_updated_at,
                   content, parsevars, dbvars, before>>

\* Lines 36-43 and 224: a new process connects and enters main.
StartRun ==
    /\ Ended /\ run < MaxRuns
    /\ run' = run + 1
    /\ \E t \in 1..Len(ClockPool) :
         NotBefore(ClockPool[t], now) /\ now' = ClockPool[t]
    /\ connOpen' = TRUE /\ cursorOpen' = TRUE /\ fileOpen' = FALSE
    /\ server_updated_at' = Unset /\ content' = <<>>
    /\ pos' = 0 /\ card' = None /\ processed' = None /\ data' = <<>>
    /\ sent' = 0 /\ touched' = {} /\ txn' = cards /\ before' = cards
    /\ rowsChanged' = 0
    /\ lastData' = IF pc = "done" THEN [rows |-> data] ELSE lastData
    /\ error' = ""
    /\ pc' = "meta"
    /\ UNCHANGED <<version, file, stamp, cards>>

\* An exception leaves main: the process ends.  Nothing in the program
\* closes conn or cursor on this path; the transaction, never committed,
\* is rolled back by the server when the process is gone.
Abort ==
    /\ pc' = "failed"
    /\ error' = pc
    /\ txn' = cards
    /\ UNCHANGED <<run, env, connOpen, cursorOpen, server_updated_at, content,
                   parsevars, cards, sent, touched, rowsChanged, lastData,
                   before>>

\* Lines 189-195: the metadata request fails, or has no entry of the type.
FetchMetaFail ==
    /\ pc = "meta"
    /\ Abort
    /\ UNCHANGED <<file, stamp, fileOpen>>

\* Lines 189-202.
FetchMeta ==
    /\ pc = "meta"
    /\ server_updated_at' = UpdatedAt[version]
    /\ pc' = "fresh"
    /\ UNCHANGED <<run, env, file, stamp, handles, content, parsevars,
                   dbvars, before>>

\* Variant: line 207 with > in place of >=.
is_up_to_date_Strict(f, server) ==
    f.exists /\ local_mtime(f.mtime) > server

\* Lines 204-207: the local file exists and is not older than the server's.
is_up_to_date(f, server) ==
    f.exists /\ local_mtime(f.mtime) >= server

\* Lines 207-209: return without downloading.
SkipDownload ==
    /\ pc = "fresh"
    /\ is_up_to_date(file, server_updated_at)
    /\ pc' = "read"
    /\ UNCHANGED <<run, env, file, stamp, handles, server_updated_at, content,
                   parsevars, dbvars, before>>

\* Lines 204-212: fall through to the download.
NeedDownload ==
    /\ pc = "fresh"
    /\ ~is_up_to_date(file, server_updated_at)
    /\ pc' = "get"
    /\ UNCHANGED <<run, env, file, stamp, handles, server_updated_at, content,
                   parsevars, dbvars, before>>

\* Lines 212-214: the download request fails.
GetFail ==
    /\ pc = "get"
    /\ Abort
    /\ UNCHANGED <<file, stamp, fileOpen>>

\* Line 212.
GetContent ==
    /\ pc = "get"
    /\ content' = Payload[version]
    /\ pc' = "open"
    /\ UNCHANGED <<run, env, file, stamp, handles, server_updated_at,
                   parsevars, dbvars, before>>

\* Line 216: open(json_file, "wb") truncates the file; the file system
\* stamps it with the client clock.
OpenWrite ==
    /\ pc = "open"
    /\ file' = [exists |-> TRUE, mtime |-> now, cards |-> <<>>,
                complete |-> FALSE]
    /\ stamp' = Unset
    /\ fileOpen' = TRUE
    /\ pc' = "write"
    /\ UNCHANGED <<run, env, connOpen, cursorOpen, server_updated_at, content,
                   parsevars, dbvars, before>>

\* Line 217 fails or is interrupted after k cards reached the disk; the
\* with statement closes f.
WriteFail ==
    /\ pc = "write"
    /\ \E k \in 0..Len(content) :
         file' = [file EXCEPT !.cards = SubSeq(content, 1, k), !.mtime = now]
    /\ fileOpen' = FALSE
    /\ Abort
    /\ UNCHANGED stamp

\* Line 217 and the end of the with block.
WriteContent ==
    /\ pc = "write"
    /\ file' = [file EXCEPT !.cards = content, !.complete = TRUE,
                            !.mtime = now]
    /\ fileOpen' = FALSE
    /\ pc' = "utime"
    /\ UNCHANGED <<run, env, stamp, connOpen, cursorOpen, server_updated_at,
                   content, parsevars, dbvars, before>>

\* The process is interrupted between line 217 and line 219.
UtimeFail ==
    /\ pc = "utime"
    /\ Abort
    /\ UNCHANGED <<file, stamp, fileOpen>>

\* Lines 218-219.
Utime ==
    /\ pc = "utime"
    /\ file' = [file EXCEPT !.mtime = utime(timestamp(server_updated_at))]
    /\ stamp' = [at |-> server_updated_at]
    /\ pc' = "read"
    /\ UNCHANGED <<run, env, handles, server_updated_at, content, parsevars,
                   dbvars, before>>

\* ---------------------------------------------------------------------
\* main: the parse loop
\* ---------------------------------------------------------------------
\* Line 229.
OpenRead ==
    /\ pc = "read"
    /\ fileOpen' = TRUE
    /\ pc' = "parse"
    /\ UNCHANGED <<run, env, file, stamp, connOpen, cursorOpen,
                   server_updated_at, content, parsevars, dbvars, before>>

\* Lines 232-236: one iteration of the loop.
ParseCard ==
    /\ pc = "parse" /\ pos < Len(file.cards)
    /\ ~Raised(process_card(file.cards[pos + 1]))
    /\ card' = file.cards[pos + 1]
    /\ processed' = process_card(file.cards[pos + 1])
    /\ data' = Append(data, processed'.row)
    /\ pos' = pos + 1
    /\ UNCHANGED <<pc, run, env, file, stamp, handles, server_updated_at,
                   content, dbvars, before>>

\* Line 233 raises; the with statement closes f.
ParseCardRaise ==
    /\ pc = "parse" /\ pos < Len(file.cards)
    /\ Raised(process_card(file.cards[pos + 1]))
    /\ pc' = "failed"
    /\ error' = pc
    /\ card' = file.cards[pos + 1]
    /\ processed' = process_card(file.cards[pos + 1])
    /\ fileOpen' = FALSE
    /\ txn' = cards
    /\ UNCHANGED <<run, env, file, stamp, connOpen, cursorOpen,
                   server_updated_at, content, pos, data, cards, sent,
                   touched, rowsChanged, lastData, before>>

\* Line 232: ijson reaches the end of a document that is cut short.
ParseIncomplete ==
    /\ pc = "parse" /\ pos = Len(file.cards) /\ ~file.complete
    /\ fileOpen' = FALSE
    /\ Abort
    /\ UNCHANGED <<file, stamp>>

\* Lines 232-239: the array ends; the with statement closes f.
ParseEnd ==
    /\ pc = "parse" /\ pos = Len(file.cards) /\ file.complete
    /\ fileOpen' = FALSE
    /\ pc' = "exec"
    /\ UNCHANGED <<run, env, file, stamp, connOpen, cursorOpen,
                   server_updated_at, content, parsevars, dbvars, before>>

\* ---------------------------------------------------------------------
\* main: the upsert.  A table is a sequence of rows, a row a tuple in
\* column order.
\* ---------------------------------------------------------------------
\* Line 257; 1000 in the source, scaled down with the payloads.
page_size == 2

idcol == ColIdx("id")

\* Variant: the first update column left out.
update_columns_DropFirst == Tail(SelectSeq(columns, LAMBDA col : col # "id"))

\* Line 242.
update_columns == SelectSeq(columns, LAMBDA col : col # "id")

IsUpdateColumn(i) ==
    \E j \in 1..Len(update_columns) : update_columns[j] = columns[i]

\* Line 243: SET col = EXCLUDED.col for every update column.
set_clause(stored, excluded) ==
    [i \in 1..NumCols |-> IF IsUpdateColumn(i) THEN excluded[i] ELSE stored[i]]

\* Variant: no WHERE guard on the update.
where_clause_Missing(stored, excluded) == TRUE

\* Lines 244-250: WHERE (cards.cols) IS DISTINCT FROM (EXCLUDED.cols).
where_clause(stored, excluded) ==
    \E i \in 1..NumCols : IsUpdateColumn(i) /\ stored[i] # excluded[i]

\* Variant: the conflict target is oracle_id.
conflicts_OnOracleId(table, row) ==
    {i \in 1..Len(table) : table[i][ColIdx("oracle_id")] = row[ColIdx("oracle_id")]}

\* Line 254: ON CONFLICT (id): the stored rows the proposed row collides with.
conflicts(table, row) ==
    {i \in 1..Len(table) : table[i][idcol] = row[idcol]}

\* The row execute_values sends next, and the keys the statement it belongs
\* to has inserted or updated so far (a page is one INSERT statement).
NextRow == data[sent + 1]

InStatement == IF sent % page_size = 0 THEN {} ELSE touched

\* The server rejects the statement: the key is null, or the statement
\* would affect a second time a row it has itself inserted or updated.
Rejected(row) ==
    \/ row[idcol] = None
    \/ conflicts(txn, row) # {} /\ row[idcol] \in InStatement

ExecReject ==
    /\ pc = "exec" /\ sent < Len(data)
    /\ Rejected(NextRow)
    /\ Abort
    /\ UNCHANGED <<file, stamp, fileOpen>>

\* Lines 256-258: the connection or the server fails during the batch.
ExecFail ==
    /\ pc = "exec"
    /\ Abort
    /\ UNCHANGED <<file, stamp, fileOpen>>

\* Variant: the connection commits after every statement.
ExecInsert_Autocommit ==
    /\ pc = "exec" /\ sent < Len(data)
    /\ ~Rejected(NextRow)
    /\ conflicts(txn, NextRow) = {}
    /\ txn' = Append(txn, NextRow)
    /\ cards' = txn'
    /\ touched' = InStatement \cup {NextRow[idcol]}
    /\ rowsChanged' = rowsChanged + 1
    /\ sent' = sent + 1
    /\ UNCHANGED <<pc, run, env, file, stamp, handles, server_updated_at,
                   content, parsevars, lastData, error, before>>

\* Lines 253, 256-258: no stored row has the key; the row is inserted.
ExecInsert ==
    /\ pc = "exec" /\ sent < Len(data)
    /\ ~Rejected(NextRow)
    /\ conflicts(txn, NextRow) = {}
    /\ txn' = Append(txn, NextRow)
    /\ touched' = InStatement \cup {NextRow[idcol]}
    /\ rowsChanged' = rowsChanged + 1
    /\ sent' = sent + 1
    /\ UNCHANGED <<pc, run, env, file, stamp, handles, server_updated_at,
                   content, parsevars, cards, lastData, error, before>>

\* Lines 254, 256-258: a stored row has the key and differs: DO UPDATE.
ExecUpdate ==
    /\ pc = "exec" /\ sent < Len(data)
    /\ ~Rejected(NextRow)
    /\ \E i \in conflicts(txn, NextRow) :
         /\ where_clause(txn[i], NextRow)
         /\ txn' = [txn EXCEPT ![i] = set_clause(txn[i], NextRow)]
    /\ touched' = InStatement \cup {NextRow[idcol]}
    /\ rowsChanged' = rowsChanged + 1
    /\ sent' = sent + 1
    /\ UNCHANGED <<pc, run, env, file, stamp, handles, server_updated_at,
                   content, parsevars, cards, lastData, error, before>>

\* Lines 254, 256-258: a stored row has the key and does not differ: the
\* WHERE guard leaves it alone.
ExecNoop ==
    /\ pc = "exec" /\ sent < Len(data)
    /\ ~Rejected(NextRow)
    /\ \E i \in conflicts(txn, NextRow) : ~where_clause(txn[i], NextRow)
    /\ touched' = InStatement
    /\ sent' = sent + 1
    /\ UNCHANGED <<pc, run, env, file, stamp, handles, server_updated_at,
                   content, parsevars, txn, cards, rowsChanged, lastData,
                   error, before>>

\* Line 258: execute_values returns.
ExecDone ==
    /\ pc = "exec" /\ sent = Len(data)
    /\ pc' = "commit"
    /\ UNCHANGED <<run, env, file, stamp, handles, server_updated_at, content,
                   parsevars, dbvars, before>>

\* Line 259 fails.
CommitFail ==
    /\ pc = "commit"
    /\ Abort
    /\ UNCHANGED <<file, stamp, fileOpen>>

\* Line 259.
Commit ==
    /\ pc = "commit"
    /\ cards' = txn
    /\ pc' = "close_cursor"
    /\ UNCHANGED <<run, env, file, stamp, handles, server_updated_at, content,
                   parsevars, txn, sent, touched, rowsChanged, lastData,
                   error, before>>

\* Line 260.
CloseCursor ==
    /\ pc = "close_cursor"
    /\ cursorOpen' = FALSE
    /\ pc' = "close_conn"
    /\ UNCHANGED <<run, env, file, stamp, connOpen, fileOpen,
                   server_updated_at, content, parsevars, dbvars, before>>

\* Lines 261-262.
CloseConn ==
    /\ pc = "close_conn"
    /\ connOpen' = FALSE
    /\ pc' = "done"
    /\ UNCHANGED <<run, env, file, stamp, cursorOpen, fileOpen,
                   server_updated_at, content, parsevars, dbvars, before>>

Next ==
    \/ Publish
    \/ StartRun
    \/ FetchMetaFail
    \/ FetchMeta
    \/ SkipDownload
    \/ NeedDownload
    \/ GetFail
    \/ GetContent
    \/ OpenWrite
    \/ WriteFail
    \/ WriteContent
    \/ UtimeFail
    \/ Utime
    \/ OpenRead
    \/ ParseCard
    \/ ParseCardRaise
    \/ ParseIncomplete
    \/ ParseEnd
    \/ ExecReject
    \/ ExecFail
    \/ ExecInsert
    \/ ExecUpdate
    \/ ExecNoop
    \/ ExecDone
    \/ CommitFail
    \/ Commit
    \/ CloseCursor
    \/ CloseConn

Spec == Init /\ [][Next]_vars

\* ---------------------------------------------------------------------
\* process_card on its own: one record in, one row or one exception out.
\* ---------------------------------------------------------------------
MaxFaces == 2

Absent == [absent |-> TRUE]

\* Values a record may carry in released_at.
ReleasedAtPool ==
    {Absent, None, S(<<>>), [int |-> 0], [int |-> 20200102], [bool |-> TRUE],
     S(<<"2", "0", "2", "0", "-", "0", "2", "-", "2", "9">>),
     S(<<"2", "0", "2", "1", "-", "0", "2", "-", "2", "9">>),
     S(<<"2", "0", "2", "1", "-", "1", "3", "-", "0", "1">>),
     S(<<"n", "o", "t", "-", "a", "-", "d", "a", "t", "e">>),
     S(<<"2", "0", "2", "1">>)}

uris2 == [dict |-> << <<"normal", S(<<"v">>)>>, <<"price", [decimal |-> 5]>> >>]

\* Values a record may carry in image_uris.
ImageUrisPool == {Absent, None, [dict |-> <<>>], uris}

faceOther == [dict |-> << <<"image_uris", uris2>> >>]

faceNull == [dict |-> << <<"image_uris", None>> >>]

FacePool == {faceWith, faceWithout, faceOther, faceNull}

\* Values a record may carry in card_faces: absent, or a list of faces.
CardFacesPool ==
    {Absent} \cup
    {[list |-> fs] : fs \in UNION {[1..n -> FacePool] : n \in 0..MaxFaces}}

Opt(key, v) == IF v = Absent THEN <<>> ELSE << <<key, v>> >>

CardSet ==
    {[dict |-> << <<"id", S(<<"1">>)>> >> \o Opt("released_at", r)
               \o Opt("image_uris", u) \o Opt("cmc", c) \o Opt("card_faces", f)] :
       r \in ReleasedAtPool, u \in ImageUrisPool,
       c \in {Absent, [decimal |-> 25]}, f \in CardFacesPool}

InitCard ==
    /\ pc = "card"
    /\ card \in CardSet
    /\ processed = None
    /\ run = 0 /\ version = 1 /\ now = ClockPool[1]
    /\ file = NoFile /\ stamp = Unset
    /\ connOpen = FALSE /\ cursorOpen = FALSE /\ fileOpen = FALSE
    /\ server_updated_at = Unset /\ content = <<>>
    /\ pos = 0 /\ data = <<>> /\ sent = 0 /\ touched = {}
    /\ cards = <<>> /\ txn = <<>> /\ before = <<>>
    /\ rowsChanged = 0 /\ lastData = Unset /\ error = ""

\* Line 233.
ApplyProcessCard ==
    /\ pc = "card"
    /\ processed' = process_card(card)
    /\ pc' = "card_done"
    /\ UNCHANGED <<run, env, file, stamp, handles, server_updated_at, content,
                   pos, card, data, dbvars, before>>

NextCard == ApplyProcessCard

SpecCard == InitCard /\ [][NextCard]_vars

\* ---------------------------------------------------------------------
\* Properties
\* ---------------------------------------------------------------------
\* The run in progress skipped the download: it reads the file without
\* having fetched any content.
Skipped == pc = "read" /\ content = <<>>

\* C1: at the freshness check the download is entered if and only if the
\* local file is absent or its modification time, read as an aware
\* datetime (line 205), is strictly earlier than the server's updated_at;
\* otherwise the download is skipped and the file is left as it is.
C1_DownloadIffStale ==
    [][pc = "fresh" =>
         /\ pc' \in {"get", "read"}
         /\ (pc' = "get") <=>
              (~file.exists \/ local_mtime(file.mtime) < server_updated_at)
         /\ (pc' = "read") => (file' = file /\ content' = <<>>)]_vars

\* C1 witness: a run has skipped the download of a file whose modification
\* time equals the server's updated_at.
C1_Witness ==
    /\ Skipped /\ file.exists
    /\ local_mtime(file.mtime) = server_updated_at

\* C2 as stated: a run that commits the same rows as the last committed
\* run before it inserts no row and updates no row.
C2_Original ==
    (pc = "done" /\ lastData = [rows |-> data]) => rowsChanged = 0

\* No two rows of the batch share a key and differ elsewhere.
KeysConsistent(rows) ==
    \A i, j \in 1..Len(rows) : rows[i][idcol] = rows[j][idcol] => rows[i] = rows[j]

\* C2 amended: a run that commits the same rows as the last committed run
\* before it changes no row, provided no two rows of the batch share a key
\* while differing in another column.
C2_Idempotent ==
    (pc = "done" /\ lastData = [rows |-> data] /\ KeysConsistent(data))
        => rowsChanged = 0

\* C2 witness: a second run over the same non-empty batch has finished.
C2_Witness ==
    /\ pc = "done" /\ lastData = [rows |-> data]
    /\ data # <<>> /\ KeysConsistent(data)

\* C3: a failed run leaves the committed table as it was when the run
\* began; a run that fails before the writer stage has sent no row, and
\* no step before the writer stage touches the table at all.
C3_NoPartialBatch ==
    /\ pc = "failed" => cards = before
    /\ (pc = "failed" /\ error \notin {"exec", "commit"}) =>
           (sent = 0 /\ rowsChanged = 0)
    /\ pc \in {"meta", "fresh", "get", "open", "write", "utime", "read", "parse"} =>
           (cards = before /\ txn = before)

\* C3 witness: a run has failed during the writer stage after it had
\* inserted or updated rows.
C3_Witness == pc = "failed" /\ error = "exec" /\ rowsChanged > 0

UniqueKeys(table) ==
    \A i, j \in 1..Len(table) : table[i][idcol] = table[j][idcol] => i = j

\* C4: the table, committed or inside the transaction, never holds two
\* rows with the same primary key.
C4_UniqueKey == UniqueKeys(cards) /\ UniqueKeys(txn)

\* C4 witness: a finished run has upserted a record whose key was stored
\* before the run.
C4_Witness ==
    /\ pc = "done"
    /\ \E i \in 1..Len(data), j \in 1..Len(before) :
         data[i][idcol] = before[j][idcol]

NonKey == {i \in 1..NumCols : columns[i] # "id"}

\* C5: when the row being sent collides with a stored row and the
\* statement goes through, every other stored row is left alone, and the
\* stored row takes the incoming value in every non-key column if it
\* differed in at least one of them, and is not written otherwise; its key
\* is the same afterwards.
C5_ConflictResolution ==
    [][(pc = "exec" /\ pc' = "exec" /\ sent < Len(data)) =>
         \A i \in 1..Len(txn) :
           IF txn[i][idcol] = data[sent + 1][idcol]
           THEN /\ Len(txn') = Len(txn)
                /\ txn'[i][idcol] = txn[i][idcol]
                /\ IF \E c \in NonKey : txn[i][c] # data[sent + 1][c]
                   THEN /\ \A c \in NonKey : txn'[i][c] = data[sent + 1][c]
                        /\ rowsChanged' = rowsChanged + 1
                   ELSE /\ txn'[i] = txn[i]
                        /\ rowsChanged' = rowsChanged
           ELSE txn'[i] = txn[i]]_vars

\* C5 witness: the transaction has updated a stored row in place.
C5_Witness ==
    /\ pc = "exec" /\ sent > 0 /\ rowsChanged > 0
    /\ Len(txn) = Len(before) /\ txn # before

\* C6 as stated: no run ends with the file handle, the cursor or the
\* connection open.
C6_AllClosedAtExit ==
    pc \in {"done", "failed"} => (~fileOpen /\ ~cursorOpen /\ ~connOpen)

\* C7: a file stamped by a completed download reads back exactly the
\* updated_at it was stamped with, and a run that finds the server's
\* updated_at equal to the stamp skips the download.
C7_StampedWithUpdatedAt ==
    /\ []("at" \in DOMAIN stamp =>
            (file.exists /\ local_mtime(file.mtime) = stamp.at))
    /\ [][(pc = "fresh" /\ stamp = [at |-> server_updated_at]) =>
            pc' = "read"]_vars

\* C7 witness: a later run skips the download of a file that an earlier
\* run downloaded and stamped with the unchanged updated_at.
C7_Witness ==
    /\ Skipped /\ run >= 2 /\ version >= 2
    /\ stamp = [at |-> server_updated_at]
    /\ file.cards = Payload[version]

\* The value of released_at is a well-formed date string.
WellFormedDate(v) == IsStr(v) /\ "date" \in DOMAIN fromisoformat_date(v)

\* C8 as stated: a record whose released_at is absent or malformed yields
\* a row with a null release date, and process_card does not raise.
C8_MalformedDateIsNull ==
    (pc = "card_done" /\ ~WellFormedDate(Get(card, "released_at"))) =>
        /\ ~Raised(processed)
        /\ processed.row[ColIdx("released_at")] = None

HasUrisMap(face) == HasKey(face, "image_uris") /\ IsDict(GetItem(face, "image_uris"))

HasUrisKey(face) == HasKey(face, "image_uris")

\* The image_uris values of a list of faces that all carry the key.
UrisOf(faces) == [i \in 1..Len(faces) |-> GetItem(faces[i], "image_uris")]

\* What the generic branch of process_card stores for a value.
Stored(v) == IF IsDict(v) \/ IsList(v) THEN [Json |-> convert_decimals(v)] ELSE v

\* C9 as stated: with faces and no top-level image-URI map, image_uris is
\* the list of the maps of the faces that have one, or null if none has;
\* a top-level image-URI map is kept.
C9_Original ==
    (pc = "card_done" /\ ~Raised(processed)) =>
        LET top == Get(card, "image_uris")
            out == processed.row[ColIdx("image_uris")]
        IN /\ IsDict(top) => out = Stored(top)
           /\ (HasKey(card, "card_faces") /\ ~IsDict(top)) =>
                LET maps == UrisOf(SelectSeq(GetItem(card, "card_faces").list, HasUrisMap))
                IN out = IF maps = <<>> THEN None ELSE Stored([list |-> maps])

\* C9 amended: with faces and a top-level image_uris that is absent, null
\* or empty, image_uris is the list of the image_uris values of the faces
\* that carry the key (a null value included), in face order, and the
\* incoming value (null when absent) if no face carries it; a non-empty
\* top-level map is kept, as is any value of a record without faces.
C9_FaceAggregation ==
    (pc = "card_done" /\ ~Raised(processed)) =>
        LET top == Get(card, "image_uris")
            out == processed.row[ColIdx("image_uris")]
        IN IF HasKey(card, "card_faces") /\ ~Truthy(top)
           THEN LET vals == UrisOf(SelectSeq(GetItem(card, "card_faces").list, HasUrisKey))
                IN out = IF vals = <<>> THEN Stored(top) ELSE Stored([list |-> vals])
           ELSE out = Stored(top)

\* C9 witness: a record with two faces that both carry a map and no
\* top-level image_uris has been transformed.
C9_Witness ==
    /\ pc = "card_done" /\ ~Raised(processed)
    /\ ~HasKey(card, "image_uris")
    /\ HasKey(card, "card_faces")
    /\ GetItem(card, "card_faces") = [list |-> <<faceWith, faceOther>>]
    /\ processed.row[ColIdx("image_uris")] = Stored([list |-> <<uris, uris2>>])

\* C10 as stated: whenever a run skips the download, the file holds the
\* complete payload of a version whose updated_at is not later than the
\* file's modification time.
C10_SkippedFileIsComplete ==
    Skipped =>
        /\ file.complete
        /\ \E v \in 1..NumVersions :
             /\ file.cards = Payload[v]
             /\ UpdatedAt[v] <= local_mtime(file.mtime)
====
